---- MODULE Spec2Model ----
(***************************************************************************)
(* State-machine model of the Fitbit OAuth2 token lifecycle of             *)
(* src/src/auth.ts (token cache, token store, refresh, authorization       *)
(* callback listener) as driven by src/src/http-server.ts.                  *)
(*                                                                         *)
(* Every `await` of the source is a suspension point: the code before it   *)
(* is one action, the code from its completion up to the next await (or    *)
(* the return) is the next action.  Outcomes of the database, the provider *)
(* and the network are chosen nondeterministically.                        *)
(***************************************************************************)
EXTENDS Integers, FiniteSets, Sequences, TLC

\* ---------------------------------------------------------------- bounds
NumCallers == 2    \* getAccessToken invocations in one run
NumReqs    == 2    \* callback requests in one run
MaxServers == 2    \* listeners created in one run
MaxTime    == 3    \* last clock instant
Lifetime   == 1    \* expires_in of an issued credential, in clock ticks

Callers == 1..NumCallers
Reqs    == 1..NumReqs
Servers == 1..MaxServers

\* ------------------------------------------------------------ credentials
\* expires_at is absent, a Date object (as simple-oauth2 sets it on a token it
\* returns) or an ISO string (as JSON.stringify writes a Date).
NoExp      == [k |-> "none", t |-> 0]
DateOf(t)  == [k |-> "Date", t |-> t]
IsoOf(t)   == [k |-> "ISO", t |-> t]

\* `let accessToken: string | null = null`
NoToken == 0
\* `let tokenData: FitbitTokenData | null = null`
NoCred  == [at |-> NoToken, rt |-> NoToken, exp |-> NoExp]
\* `let oauthServer: http.Server | null = null`
NoServer == 0

\* A faulty variant of Stringify: expires_at is not written.
StringifyDropsExpiry(td) ==
  [td EXCEPT !.exp = NoExp]

\* JSON.stringify(tokenData): a Date becomes its ISO string.
Stringify(td) ==
  [td EXCEPT !.exp = IF td.exp.k = "Date" THEN IsoOf(td.exp.t) ELSE td.exp]

\* loadTokenFromDB's decoding: pg hands the JSONB column back as an object;
\* the ISO string stays a string.
ParseRow(row) == row

\* new Date(expires_at): the instant of a Date or of an ISO string.
ToInstant(e) == e.t

\* The provider never issues the same token twice.  Token 1 is the one a
\* previous run persisted; every refresh and every exchange of this run gets
\* a token of its own.
PersistedTok    == 1
InitRefreshTok  == 2
RefreshTok(c)   == 2 + c
ExchangeTok(r)  == 2 + NumCallers + r

\* The token the provider returns for a code exchange or a refresh, as
\* simple-oauth2 hands it over: expires_at = now + expires_in, a Date.
IssuedToken(n, t) == [at |-> n, rt |-> n, exp |-> DateOf(t + Lifetime)]

\* `tokenData.expires_at && new Date(tokenData.expires_at) < new Date()`
IsExpired(td, t) == td.exp.k # "none" /\ ToInstant(td.exp) < t

\* simple-oauth2 AccessToken.expired(): expires_at - now <= 0
LibExpired(td, t) == td.exp.k # "none" /\ ToInstant(td.exp) - t <= 0

VARIABLES
  now,          \* the clock (new Date())
  accessToken,  \* module variable accessToken
  tokenData,    \* module variable tokenData
  store,        \* the fitbit_token row (NoCred: no row)
  oauthServer,  \* module variable oauthServer
  srv,          \* srv[s]: state of listener s
  clearCb,      \* clearCb[s]: a close callback that nulls oauthServer is registered on s
  lastStart,    \* what the latest startAuthorizationFlow call did
  ipc,          \* position of initializeAuth
  irefresh,     \* refresh requests initializeAuth has issued
  ifail,        \* the step of initializeAuth that failed ("none": none)
  pc,           \* pc[c]: position of getAccessToken call c
  seen,         \* seen[c]: tokenData as call c found it
  startNow,     \* startNow[c]: the clock when call c started
  got,          \* got[c]: the token call c's refresh returned
  rout,         \* rout[c]: outcome of call c's refresh
  sout,         \* sout[c]: outcome of call c's save
  nrefresh,     \* nrefresh[c]: refresh requests call c has issued
  result,       \* result[c]: what call c returned
  hpc,          \* hpc[r]: position of the callback handler of request r
  hSrv,         \* hSrv[r]: the listener that received request r
  hGot,         \* hGot[r]: the token request r's exchange returned
  hResp,        \* hResp[r]: HTTP status sent for request r
  hSave         \* hSave[r]: outcome of request r's save

tmVars   == <<accessToken, tokenData, store>>
flowVars == <<oauthServer, srv, clearCb, lastStart>>
initVars == <<ipc, irefresh, ifail>>
callVars == <<pc, seen, startNow, got, rout, sout, nrefresh, result>>
reqVars  == <<hpc, hSrv, hGot, hResp, hSave>>
vars     == <<now, tmVars, flowVars, initVars, callVars, reqVars>>

\* What a previous run of the process can have left in the store.
StoredCreds ==
  {NoCred} \cup {[at |-> PersistedTok, rt |-> PersistedTok, exp |-> e] : e \in {IsoOf(0), IsoOf(1), IsoOf(2)}}

Init ==
  /\ now = 1
  /\ accessToken = NoToken
  /\ tokenData = NoCred
  /\ store \in StoredCreds
  /\ oauthServer = NoServer
  /\ srv = [s \in Servers |-> "unused"]
  /\ clearCb = [s \in Servers |-> FALSE]
  /\ lastStart = "none"
  /\ ipc = "start"
  /\ irefresh = 0
  /\ ifail = "none"
  /\ pc = [c \in Callers |-> "idle"]
  /\ seen = [c \in Callers |-> NoCred]
  /\ startNow = [c \in Callers |-> 0]
  /\ got = [c \in Callers |-> NoCred]
  /\ rout = [c \in Callers |-> "none"]
  /\ sout = [c \in Callers |-> "none"]
  /\ nrefresh = [c \in Callers |-> 0]
  /\ result = [c \in Callers |-> NoToken]
  /\ hpc = [r \in Reqs |-> "idle"]
  /\ hSrv = [r \in Reqs |-> NoServer]
  /\ hGot = [r \in Reqs |-> NoCred]
  /\ hResp = [r \in Reqs |-> 0]
  /\ hSave = [r \in Reqs |-> "none"]

\* The clock advances.
Tick ==
  /\ now < MaxTime
  /\ now' = now + 1
  /\ UNCHANGED <<tmVars, flowVars, initVars, callVars, reqVars>>

\* ------------------------------------------------------- initializeAuth
\* All other operations wait for it: main() awaits initializeAuth() before it
\* listens and before it calls getAccessToken (http-server.ts).

\* `await initializeDatabase()`: on a query error initializeDatabase rethrows
\* and the outer catch of initializeAuth logs it.
InitDatabase ==
  /\ ipc = "start"
  /\ \/ /\ ipc' = "load"
        /\ UNCHANGED ifail
     \/ /\ ipc' = "done"
        /\ ifail' = "db"
  /\ UNCHANGED <<now, tmVars, flowVars, irefresh, callVars, reqVars>>

\* `tokenData = await loadTokenFromDB()` and the code up to the refresh await.
\* loadTokenFromDB returns null when there is no row and when the query fails.
InitLoad ==
  /\ ipc = "load"
  /\ \E ok \in BOOLEAN :
       LET td == IF ok THEN ParseRow(store) ELSE NoCred IN
         /\ tokenData' = td
         /\ ifail' = IF ok THEN ifail ELSE "load"
         /\ IF td # NoCred /\ td.at # NoToken
              THEN /\ accessToken' = td.at
                   /\ IF IsExpired(td, now) /\ LibExpired(td, now)
                        THEN /\ ipc' = "refresh"
                             /\ irefresh' = irefresh + 1
                        ELSE /\ ipc' = "done"
                             /\ UNCHANGED irefresh
              ELSE /\ ipc' = "done"
                   /\ UNCHANGED <<accessToken, irefresh>>
  /\ UNCHANGED <<now, store, flowVars, callVars, reqVars>>

\* `await accessTokenObj.refresh()` completes in initializeAuth.
InitRefreshDone ==
  /\ ipc = "refresh"
  /\ \/ /\ accessToken' = InitRefreshTok
        /\ tokenData' = IssuedToken(InitRefreshTok, now)
        /\ ipc' = "save"
        /\ UNCHANGED ifail
     \/ /\ accessToken' = NoToken
        /\ tokenData' = NoCred
        /\ ipc' = "done"
        /\ ifail' = "refresh"
  /\ UNCHANGED <<now, store, flowVars, irefresh, callVars, reqVars>>

\* `await saveTokenToDB(tokenData)` completes in initializeAuth; saveTokenToDB
\* rethrows a query error, which the catch around the refresh handles.
InitSaveDone ==
  /\ ipc = "save"
  /\ \/ /\ store' = Stringify(tokenData)
        /\ UNCHANGED <<accessToken, tokenData, ifail>>
     \/ /\ accessToken' = NoToken
        /\ tokenData' = NoCred
        /\ ifail' = "save"
        /\ UNCHANGED store
  /\ ipc' = "done"
  /\ UNCHANGED <<now, flowVars, irefresh, callVars, reqVars>>

\* ------------------------------------------------------- getAccessToken
\* A faulty variant of GetAccessToken: the token is refreshed ahead of its expiry (a
\* safety margin of one token lifetime) and without asking the library.
GetAccessTokenEager(c) ==
  /\ ipc = "done"
  /\ pc[c] = "idle"
  /\ seen' = [seen EXCEPT ![c] = tokenData]
  /\ startNow' = [startNow EXCEPT ![c] = now]
  /\ IF tokenData = NoCred \/ accessToken = NoToken
       THEN /\ pc' = [pc EXCEPT ![c] = "done"]
            /\ result' = [result EXCEPT ![c] = NoToken]
            /\ UNCHANGED nrefresh
       ELSE IF tokenData.exp.k # "none" /\ ToInstant(tokenData.exp) < now + Lifetime + 1
         THEN /\ pc' = [pc EXCEPT ![c] = "refresh"]
              /\ nrefresh' = [nrefresh EXCEPT ![c] = @ + 1]
              /\ UNCHANGED result
         ELSE /\ pc' = [pc EXCEPT ![c] = "done"]
              /\ result' = [result EXCEPT ![c] = accessToken]
              /\ UNCHANGED nrefresh
  /\ UNCHANGED <<now, tmVars, flowVars, initVars, got, rout, sout, reqVars>>

\* The call up to its first await (the refresh) or its return.
GetAccessToken(c) ==
  /\ ipc = "done"
  /\ pc[c] = "idle"
  /\ seen' = [seen EXCEPT ![c] = tokenData]
  /\ startNow' = [startNow EXCEPT ![c] = now]
  /\ IF tokenData = NoCred \/ accessToken = NoToken
       THEN /\ pc' = [pc EXCEPT ![c] = "done"]
            /\ result' = [result EXCEPT ![c] = NoToken]
            /\ UNCHANGED nrefresh
       ELSE IF IsExpired(tokenData, now) /\ LibExpired(tokenData, now)
         THEN /\ pc' = [pc EXCEPT ![c] = "refresh"]
              /\ nrefresh' = [nrefresh EXCEPT ![c] = @ + 1]
              /\ UNCHANGED result
         ELSE /\ pc' = [pc EXCEPT ![c] = "done"]
              /\ result' = [result EXCEPT ![c] = accessToken]
              /\ UNCHANGED nrefresh
  /\ UNCHANGED <<now, tmVars, flowVars, initVars, got, rout, sout, reqVars>>

\* A faulty variant of GetRefreshDone: a failed refresh is tried once more.
GetRefreshDoneRetry(c) ==
  /\ pc[c] = "refresh"
  /\ \/ /\ accessToken' = RefreshTok(c)
        /\ tokenData' = IssuedToken(RefreshTok(c), now)
        /\ got' = [got EXCEPT ![c] = IssuedToken(RefreshTok(c), now)]
        /\ rout' = [rout EXCEPT ![c] = "accepted"]
        /\ pc' = [pc EXCEPT ![c] = "save"]
        /\ UNCHANGED <<result, nrefresh>>
     \/ /\ nrefresh[c] < 2
        /\ nrefresh' = [nrefresh EXCEPT ![c] = @ + 1]
        /\ UNCHANGED <<accessToken, tokenData, got, rout, pc, result>>
     \/ /\ nrefresh[c] >= 2
        /\ accessToken' = NoToken
        /\ tokenData' = NoCred
        /\ rout' = [rout EXCEPT ![c] = "rejected"]
        /\ pc' = [pc EXCEPT ![c] = "done"]
        /\ result' = [result EXCEPT ![c] = NoToken]
        /\ UNCHANGED <<got, nrefresh>>
  /\ UNCHANGED <<now, store, flowVars, initVars, seen, startNow, sout, reqVars>>

\* `await accessTokenObj.refresh()` completes in getAccessToken: the cache is
\* set and the save is started, or the catch clears the cache and returns null.
GetRefreshDone(c) ==
  /\ pc[c] = "refresh"
  /\ \/ /\ accessToken' = RefreshTok(c)
        /\ tokenData' = IssuedToken(RefreshTok(c), now)
        /\ got' = [got EXCEPT ![c] = IssuedToken(RefreshTok(c), now)]
        /\ rout' = [rout EXCEPT ![c] = "accepted"]
        /\ pc' = [pc EXCEPT ![c] = "save"]
        /\ UNCHANGED result
     \/ /\ accessToken' = NoToken
        /\ tokenData' = NoCred
        /\ rout' = [rout EXCEPT ![c] = "rejected"]
        /\ pc' = [pc EXCEPT ![c] = "done"]
        /\ result' = [result EXCEPT ![c] = NoToken]
        /\ UNCHANGED got
  /\ UNCHANGED <<now, store, flowVars, initVars, seen, startNow, sout, nrefresh, reqVars>>

\* A faulty variant of GetSaveDone: the save is awaited outside the try block, so its
\* error leaves getAccessToken as a rejection.
GetSaveDoneUncaught(c) ==
  /\ pc[c] = "save"
  /\ \/ /\ store' = Stringify(got[c])
        /\ sout' = [sout EXCEPT ![c] = "ok"]
        /\ result' = [result EXCEPT ![c] = accessToken]
        /\ pc' = [pc EXCEPT ![c] = "done"]
     \/ /\ sout' = [sout EXCEPT ![c] = "failed"]
        /\ pc' = [pc EXCEPT ![c] = "raised"]
        /\ UNCHANGED <<store, result>>
  /\ UNCHANGED <<now, accessToken, tokenData, flowVars, initVars, seen, startNow, got, rout, nrefresh, reqVars>>

\* `await saveTokenToDB(tokenData)` completes in getAccessToken.  The row
\* written is the argument, serialised when the call was made; the value
\* returned is the module variable accessToken as it is now.  A save error is
\* rethrown by saveTokenToDB into the catch of getAccessToken.
GetSaveDone(c) ==
  /\ pc[c] = "save"
  /\ \/ /\ store' = Stringify(got[c])
        /\ sout' = [sout EXCEPT ![c] = "ok"]
        /\ result' = [result EXCEPT ![c] = accessToken]
        /\ UNCHANGED <<accessToken, tokenData>>
     \/ /\ accessToken' = NoToken
        /\ tokenData' = NoCred
        /\ sout' = [sout EXCEPT ![c] = "failed"]
        /\ result' = [result EXCEPT ![c] = NoToken]
        /\ UNCHANGED store
  /\ pc' = [pc EXCEPT ![c] = "done"]
  /\ UNCHANGED <<now, flowVars, initVars, seen, startNow, got, rout, nrefresh, reqVars>>

\* ----------------------------------------------- startAuthorizationFlow
\* validateEnvironment() exits the process unless client id and secret are set.
HasClientConfig == TRUE

\* http.Server.close(): the listening handle is closed at once; the 'close'
\* event (and with it every callback given to close) comes when the
\* connections have ended.
CloseServer(f, s) == [f EXCEPT ![s] = "draining"]

\* A faulty variant of StartAuthorizationFlow: the `if (oauthServer)` guard is missing.
StartAuthorizationFlowUnguarded(s) ==
  /\ ipc = "done"
  /\ srv[s] = "unused"
  /\ \A u \in Servers : u < s => srv[u] # "unused"
  /\ srv' = [srv EXCEPT ![s] = "starting"]
  /\ oauthServer' = s
  /\ lastStart' = "bound"
  /\ UNCHANGED clearCb
  /\ UNCHANGED <<now, tmVars, initVars, callVars, reqVars>>

\* The synchronous body of startAuthorizationFlow; s is the listener that
\* app.listen(PORT) creates if the call gets that far.
StartAuthorizationFlow(s) ==
  /\ ipc = "done"
  /\ srv[s] = "unused"
  /\ \A u \in Servers : u < s => srv[u] # "unused"
  /\ IF oauthServer # NoServer \/ ~HasClientConfig
       THEN /\ lastStart' = "noop"
            /\ UNCHANGED <<oauthServer, srv, clearCb>>
       ELSE /\ srv' = [srv EXCEPT ![s] = "starting"]
            /\ oauthServer' = s
            /\ lastStart' = "bound"
            /\ UNCHANGED clearCb
  /\ UNCHANGED <<now, tmVars, initVars, callVars, reqVars>>

\* main (http-server.ts): after `await initializeAuth()` and app.listen, main
\* calls getAccessToken as caller MainCaller, and when that call has returned
\* main's continuation makes the null check and, on null, calls
\* startAuthorizationFlow.  The continuation is a microtask queued by the
\* return: no callback of another request runs before it (MainPending).
MainCaller == 1

MainCalled == pc[MainCaller] # "idle"

MainPending == pc[MainCaller] = "done"

\* A faulty variant of MainNullCheck: the flow is never started.
MainNullCheckNoStart(s) ==
  /\ MainPending
  /\ pc' = [pc EXCEPT ![MainCaller] = "finished"]
  /\ UNCHANGED <<now, tmVars, flowVars, initVars, seen, startNow, got, rout,
                 sout, nrefresh, result, reqVars>>

\* `if (!token) startAuthorizationFlow()` and the end of main's setup.
MainNullCheck(s) ==
  /\ MainPending
  /\ pc' = [pc EXCEPT ![MainCaller] = "finished"]
  /\ IF result[MainCaller] = NoToken
       THEN /\ srv[s] = "unused"
            /\ IF oauthServer # NoServer \/ ~HasClientConfig
                 THEN /\ lastStart' = "noop"
                      /\ UNCHANGED <<oauthServer, srv, clearCb>>
                 ELSE /\ srv' = [srv EXCEPT ![s] = "starting"]
                      /\ oauthServer' = s
                      /\ lastStart' = "bound"
                      /\ UNCHANGED clearCb
       ELSE UNCHANGED flowVars
  /\ UNCHANGED <<now, tmVars, initVars, seen, startNow, got, rout, sout,
                 nrefresh, result, reqVars>>

\* The listen callback: the port is bound.
ListenOk(s) ==
  /\ srv[s] = "starting"
  /\ srv' = [srv EXCEPT ![s] = "listening"]
  /\ UNCHANGED <<now, tmVars, oauthServer, clearCb, lastStart, initVars, callVars, reqVars>>

\* oauthServer.on('error'): the port could not be bound.
ListenError(s) ==
  /\ srv[s] = "starting"
  /\ srv' = [srv EXCEPT ![s] = "closed"]
  /\ oauthServer' = NoServer
  /\ UNCHANGED <<now, tmVars, clearCb, lastStart, initVars, callVars, reqVars>>

\* A faulty variant of ServerClosed: the close callback does not clear the
\* guard.
ServerClosedKeepsGuard(s) ==
  /\ srv[s] = "draining"
  /\ srv' = [srv EXCEPT ![s] = "closed"]
  /\ clearCb' = [clearCb EXCEPT ![s] = FALSE]
  /\ UNCHANGED <<now, tmVars, oauthServer, lastStart, initVars, callVars, reqVars>>

\* The 'close' event of listener s: its close callbacks run.
ServerClosed(s) ==
  /\ srv[s] = "draining"
  /\ srv' = [srv EXCEPT ![s] = "closed"]
  /\ clearCb' = [clearCb EXCEPT ![s] = FALSE]
  /\ oauthServer' = IF clearCb[s] THEN NoServer ELSE oauthServer
  /\ UNCHANGED <<now, tmVars, lastStart, initVars, callVars, reqVars>>

\* A faulty variant of CallbackNoCode: the guard is cleared but the listener is not closed.
CallbackNoCodeLeavesListener(r) ==
  /\ hpc[r] = "idle"
  /\ \E s \in Servers :
       /\ srv[s] = "listening"
       /\ hSrv' = [hSrv EXCEPT ![r] = s]
  /\ hResp' = [hResp EXCEPT ![r] = 400]
  /\ hpc' = [hpc EXCEPT ![r] = "done"]
  /\ oauthServer' = NoServer
  /\ UNCHANGED <<now, tmVars, srv, clearCb, lastStart, initVars, callVars, hGot, hSave>>

\* GET /callback without a code, received by a listening server.
CallbackNoCode(r) ==
  /\ hpc[r] = "idle"
  /\ \E s \in Servers :
       /\ srv[s] = "listening"
       /\ hSrv' = [hSrv EXCEPT ![r] = s]
  /\ hResp' = [hResp EXCEPT ![r] = 400]
  /\ hpc' = [hpc EXCEPT ![r] = "done"]
  /\ IF oauthServer # NoServer
       THEN /\ srv' = CloseServer(srv, oauthServer)
            /\ oauthServer' = NoServer
       ELSE UNCHANGED <<srv, oauthServer>>
  /\ UNCHANGED <<now, tmVars, clearCb, lastStart, initVars, callVars, hGot, hSave>>

\* GET /callback?code=..., up to `await oauthClient.getToken(tokenParams)`.
CallbackWithCode(r) ==
  /\ hpc[r] = "idle"
  /\ \E s \in Servers :
       /\ srv[s] = "listening"
       /\ hSrv' = [hSrv EXCEPT ![r] = s]
  /\ hpc' = [hpc EXCEPT ![r] = "exchange"]
  /\ UNCHANGED <<now, tmVars, flowVars, initVars, callVars, hGot, hResp, hSave>>

\* The finally block of the callback handler.
Teardown ==
  IF oauthServer # NoServer
    THEN /\ srv' = CloseServer(srv, oauthServer)
         /\ clearCb' = [clearCb EXCEPT ![oauthServer] = TRUE]
         /\ UNCHANGED <<oauthServer, lastStart>>
    ELSE UNCHANGED flowVars

\* A faulty variant of ExchangeDone: tokenData is set but accessToken is not.
ExchangeDoneForgetsToken(r) ==
  /\ hpc[r] = "exchange"
  /\ \/ /\ tokenData' = IssuedToken(ExchangeTok(r), now)
        /\ hGot' = [hGot EXCEPT ![r] = IssuedToken(ExchangeTok(r), now)]
        /\ hpc' = [hpc EXCEPT ![r] = "save"]
        /\ UNCHANGED <<accessToken, flowVars, hResp>>
     \/ /\ hResp' = [hResp EXCEPT ![r] = 500]
        /\ hpc' = [hpc EXCEPT ![r] = "done"]
        /\ Teardown
        /\ UNCHANGED <<accessToken, tokenData, hGot>>
  /\ UNCHANGED <<now, store, initVars, callVars, hSrv, hSave>>

\* `await oauthClient.getToken(...)` completes: the cache is set and the save
\* is started, or the catch answers 500 and the finally block runs.
ExchangeDone(r) ==
  /\ hpc[r] = "exchange"
  /\ \/ /\ accessToken' = ExchangeTok(r)
        /\ tokenData' = IssuedToken(ExchangeTok(r), now)
        /\ hGot' = [hGot EXCEPT ![r] = IssuedToken(ExchangeTok(r), now)]
        /\ hpc' = [hpc EXCEPT ![r] = "save"]
        /\ UNCHANGED <<flowVars, hResp>>
     \/ /\ hResp' = [hResp EXCEPT ![r] = 500]
        /\ hpc' = [hpc EXCEPT ![r] = "done"]
        /\ Teardown
        /\ UNCHANGED <<accessToken, tokenData, hGot>>
  /\ UNCHANGED <<now, store, initVars, callVars, hSrv, hSave>>

\* `await saveTokenToDB(tokenData)` completes in the callback handler: 200, or
\* the catch answers 500; the finally block runs in both cases.
CallbackSaveDone(r) ==
  /\ hpc[r] = "save"
  /\ \/ /\ store' = Stringify(hGot[r])
        /\ hResp' = [hResp EXCEPT ![r] = 200]
        /\ hSave' = [hSave EXCEPT ![r] = "ok"]
     \/ /\ hResp' = [hResp EXCEPT ![r] = 500]
        /\ hSave' = [hSave EXCEPT ![r] = "failed"]
        /\ UNCHANGED store
  /\ hpc' = [hpc EXCEPT ![r] = "done"]
  /\ Teardown
  /\ UNCHANGED <<now, accessToken, tokenData, initVars, callVars, hSrv, hGot>>

\* ------------------------------------------------------- specifications
\* The token side: initializeAuth, every getAccessToken call and the clock,
\* against one authorization session with one callback request.
FirstReq    == {r \in Reqs : r = 1}
FirstServer == {s \in Servers : s = 1}

Next ==
  \/ Tick
  \/ InitDatabase
  \/ InitLoad
  \/ InitRefreshDone
  \/ InitSaveDone
  \/ \E c \in Callers : GetAccessToken(c)
  \/ \E c \in Callers : GetRefreshDone(c)
  \/ \E c \in Callers : GetSaveDone(c)
  \/ \E s \in FirstServer : StartAuthorizationFlow(s)
  \/ \E s \in FirstServer : ListenOk(s)
  \/ \E s \in FirstServer : ListenError(s)
  \/ \E s \in FirstServer : ServerClosed(s)
  \/ \E r \in FirstReq : CallbackNoCode(r)
  \/ \E r \in FirstReq : CallbackWithCode(r)
  \/ \E r \in FirstReq : ExchangeDone(r)
  \/ \E r \in FirstReq : CallbackSaveDone(r)

Spec == Init /\ [][Next]_vars

\* The authorization side: initializeAuth, then every startAuthorizationFlow
\* call, every callback request and every listener event.
NextFlow ==
  \/ InitDatabase
  \/ InitLoad
  \/ InitRefreshDone
  \/ InitSaveDone
  \/ \E s \in Servers : StartAuthorizationFlow(s)
  \/ \E s \in Servers : ListenOk(s)
  \/ \E s \in Servers : ListenError(s)
  \/ \E s \in Servers : ServerClosed(s)
  \/ \E r \in Reqs : CallbackNoCode(r)
  \/ \E r \in Reqs : CallbackWithCode(r)
  \/ \E r \in Reqs : ExchangeDone(r)
  \/ \E r \in Reqs : CallbackSaveDone(r)

SpecFlow == Init /\ [][NextFlow]_vars

\* The flow taken from a process that started with an empty store.
NextFlowFresh ==
  \/ InitDatabase
  \/ InitLoad
  \/ \E s \in Servers : StartAuthorizationFlow(s)
  \/ \E s \in Servers : ListenOk(s)
  \/ \E s \in Servers : ListenError(s)
  \/ \E s \in Servers : ServerClosed(s)
  \/ \E r \in Reqs : CallbackNoCode(r)
  \/ \E r \in Reqs : CallbackWithCode(r)
  \/ \E r \in Reqs : ExchangeDone(r)
  \/ \E r \in Reqs : CallbackSaveDone(r)

\* A process that starts with an empty store.
InitFresh == Init /\ store = NoCred

\* A listener that close() was called on does emit 'close': the handler has
\* answered and idle keep-alive connections end after keepAliveTimeout.
FlowFairness == \A s \in Servers : WF_vars(ServerClosed(s))

SpecFlowFair == InitFresh /\ [][NextFlowFresh]_vars /\ FlowFairness

\* The startup sequence of main, with the tool calls of MCP requests that
\* arrive once the HTTP server listens, which is before main's own call of
\* getAccessToken suspends.
NextMain ==
  \/ ~MainPending /\ Tick
  \/ InitDatabase
  \/ InitLoad
  \/ InitRefreshDone
  \/ InitSaveDone
  \/ GetAccessToken(MainCaller)
  \/ \E c \in Callers \ {MainCaller} : MainCalled /\ ~MainPending /\ GetAccessToken(c)
  \/ \E c \in Callers : ~MainPending /\ GetRefreshDone(c)
  \/ \E c \in Callers : ~MainPending /\ GetSaveDone(c)
  \/ \E s \in FirstServer : MainNullCheck(s)
  \/ \E s \in FirstServer : ~MainPending /\ ListenOk(s)
  \/ \E s \in FirstServer : ~MainPending /\ ListenError(s)

SpecMain == Init /\ [][NextMain]_vars

\* saveTokenToDB and loadTokenFromDB on their own: any credential may be
\* saved, saves may overlap, a load may run at any time.
Savers == {c \in Callers : c <= 2}

\* The credentials handed to saveTokenToDB: expires_at absent, a Date (as
\* the OAuth library returns it) or an ISO string (as a loaded row has it).
Creds ==
  {[at |-> n, rt |-> n + 2, exp |-> e] :
     n \in 1..2,
     e \in {NoExp} \cup {DateOf(t) : t \in 1..2} \cup {IsoOf(t) : t \in 1..2}}

\* saveTokenToDB(C) is called: the upsert query is sent.
SaveTokenToDB(c) ==
  /\ pc[c] = "idle"
  /\ \E C \in Creds : got' = [got EXCEPT ![c] = C]
  /\ pc' = [pc EXCEPT ![c] = "save"]
  /\ sout' = [sout EXCEPT ![c] = "none"]
  /\ UNCHANGED <<now, tmVars, flowVars, initVars, seen, startNow, rout,
                 nrefresh, result, reqVars>>

\* The upsert query completes: the single row (id = 1) holds the JSON text,
\* or the query fails and saveTokenToDB rethrows.
SaveTokenToDBDone(c) ==
  /\ pc[c] = "save"
  /\ \/ /\ store' = Stringify(got[c])
        /\ sout' = [sout EXCEPT ![c] = "ok"]
     \/ /\ sout' = [sout EXCEPT ![c] = "failed"]
        /\ UNCHANGED store
  /\ pc' = [pc EXCEPT ![c] = "idle"]
  /\ got' = [got EXCEPT ![c] = NoCred]
  /\ UNCHANGED <<now, accessToken, tokenData, flowVars, initVars, seen,
                 startNow, rout, nrefresh, result, reqVars>>

\* loadTokenFromDB() is called: the select query is sent.
LoadTokenFromDB ==
  /\ ipc \in {"start", "done"}
  /\ ipc' = "load"
  /\ UNCHANGED <<now, tmVars, flowVars, irefresh, ifail, callVars, reqVars>>

\* The select query completes: the parsed row, or null when there is no row
\* or the query failed.  tokenData stands for the value returned.
LoadTokenFromDBDone ==
  /\ ipc = "load"
  /\ ipc' = "done"
  /\ \/ /\ tokenData' = ParseRow(store)
        /\ ifail' = "none"
     \/ /\ tokenData' = NoCred
        /\ ifail' = "load"
  /\ UNCHANGED <<now, accessToken, store, flowVars, irefresh, callVars, reqVars>>

NextStore ==
  \/ \E c \in Savers : SaveTokenToDB(c)
  \/ \E c \in Savers : SaveTokenToDBDone(c)
  \/ LoadTokenFromDB
  \/ LoadTokenFromDBDone

SpecStore == Init /\ [][NextStore]_vars

\* A fresh process with an empty store: the token side without the refresh
\* of initializeAuth, which needs a persisted credential.
NextFresh ==
  \/ Tick
  \/ InitDatabase
  \/ InitLoad
  \/ \E c \in Callers : GetAccessToken(c)
  \/ \E c \in Callers : GetRefreshDone(c)
  \/ \E c \in Callers : GetSaveDone(c)
  \/ \E s \in FirstServer : StartAuthorizationFlow(s)
  \/ \E s \in FirstServer : ListenOk(s)
  \/ \E s \in FirstServer : ListenError(s)
  \/ \E s \in FirstServer : ServerClosed(s)
  \/ \E r \in FirstReq : CallbackNoCode(r)
  \/ \E r \in FirstReq : CallbackWithCode(r)
  \/ \E r \in FirstReq : ExchangeDone(r)
  \/ \E r \in FirstReq : CallbackSaveDone(r)

SpecFresh == InitFresh /\ [][NextFresh]_vars

\* ------------------------------------------------------------ properties
\* A listener that holds (or is about to hold) the port: its session is active.
Bound(s) == srv[s] \in {"starting", "listening"}

\* The same credential, whatever the representation of expires_at.
SameCred(a, b) == Stringify(a) = Stringify(b)

\* No code exchange has succeeded in this run.
NoExchangeYet == \A r \in Reqs : hGot[r] = NoCred

\* Call c found a credential whose expiry instant was in the past.
FoundExpired(c) ==
  /\ pc[c] # "idle"
  /\ seen[c] # NoCred
  /\ seen[c].exp.k # "none"
  /\ ToInstant(seen[c].exp) < startNow[c]

\* C1: concurrent getAccessToken calls on an expired credential issue one
\* refresh request: while a refresh is in flight no other call has a refresh
\* request of its own in flight.
C1_SingleFlightRefresh ==
  Cardinality({c \in Callers : pc[c] = "refresh"}) <= 1

\* C2: getAccessToken calls that found the same expired credential (so they
\* overlap) all return the same value: the same new token, or null for all.
C2_ConcurrentCallsAgree ==
  \A c1, c2 \in Callers :
    (/\ pc[c1] = "done" /\ pc[c2] = "done"
     /\ FoundExpired(c1) /\ FoundExpired(c2)
     /\ seen[c1] = seen[c2])
    => result[c1] = result[c2]

\* C3: a getAccessToken call that finds a cached credential with
\* now < expiresAt returns the cached access token in that same step (no
\* await: no refresh request, no store access) and leaves cache and store as
\* they are.
C3_ValidTokenServedFromCache ==
  [][\A c \in Callers :
       (/\ pc[c] = "idle" /\ pc'[c] # "idle"
        /\ tokenData # NoCred /\ accessToken # NoToken
        /\ tokenData.exp.k # "none" /\ now < ToInstant(tokenData.exp))
       => (/\ pc'[c] = "done"
           /\ result'[c] = accessToken
           /\ result'[c] = tokenData.at
           /\ nrefresh'[c] = 0
           /\ UNCHANGED <<accessToken, tokenData, store>>)]_vars

\* A call returned the cached token of a credential that had not expired.
C3_Witness ==
  \E c \in Callers :
    /\ pc[c] = "done" /\ nrefresh[c] = 0
    /\ result[c] # NoToken /\ result[c] = seen[c].at
    /\ seen[c].exp.k # "none" /\ startNow[c] < ToInstant(seen[c].exp)

\* C4: a getAccessToken call that found an expired credential has issued
\* exactly one refresh request, while it waits and when it has returned:
\* never none, never a second one after a failure.
C4_ExactlyOneRefresh ==
  \A c \in Callers :
    /\ nrefresh[c] <= 1
    /\ FoundExpired(c) => nrefresh[c] = 1

\* A call on an expired credential returned after its one refresh failed.
C4_Witness ==
  \E c \in Callers :
    pc[c] = "done" /\ FoundExpired(c) /\ rout[c] = "rejected" /\ nrefresh[c] = 1

\* C5: when getAccessToken returns from a refresh the provider accepted, it
\* returns the new access token and cache and store hold the refreshed
\* credential.
C5_RefreshedEverywhere ==
  [][\A c \in Callers :
       (pc[c] # "done" /\ pc'[c] = "done" /\ rout'[c] = "accepted")
       => (/\ result'[c] = got'[c].at
           /\ accessToken' = got'[c].at
           /\ SameCred(tokenData', got'[c])
           /\ store' = Stringify(got'[c]))]_vars

\* C6: once a call has returned from a rejected refresh it has returned
\* null, and until a code exchange succeeds the cache stays empty (so later
\* calls return null without a refresh) and the store holds the stale
\* credential that call found.
C6_RejectedRefresh ==
  \A c \in Callers :
    (pc[c] = "done" /\ rout[c] = "rejected" /\ NoExchangeYet)
    => (/\ result[c] = NoToken
        /\ accessToken = NoToken /\ tokenData = NoCred
        /\ store = Stringify(seen[c]))

\* C7: a failed save does not roll the cache back, on any of the three
\* paths: the step in which the save of getAccessToken, of initializeAuth or
\* of the callback handler fails leaves accessToken and tokenData as they are.
C7_SaveFailureKeepsCache ==
  [][(\/ \E c \in Callers : sout[c] # "failed" /\ sout'[c] = "failed"
      \/ ifail # "save" /\ ifail' = "save"
      \/ \E r \in Reqs : hSave[r] # "failed" /\ hSave'[r] = "failed")
     => UNCHANGED <<accessToken, tokenData>>]_vars

\* C8: initializeAuth and getAccessToken never end in a rejection; a call
\* returns a token or null; a call whose refresh or save failed returns
\* null; after a failure in initializeAuth the cache is empty (until a code
\* exchange fills it).
C8_NeverRaises ==
  /\ ipc # "raised"
  /\ \A c \in Callers :
       /\ pc[c] # "raised"
       /\ pc[c] = "done" =>
            result[c] \in {NoToken, PersistedTok, InitRefreshTok}
                            \cup {RefreshTok(d) : d \in Callers}
                            \cup {ExchangeTok(r) : r \in Reqs}
       /\ (pc[c] = "done" /\ (rout[c] = "rejected" \/ sout[c] = "failed"))
            => result[c] = NoToken
  /\ (ipc = "done" /\ ifail # "none" /\ NoExchangeYet)
       => (accessToken = NoToken /\ tokenData = NoCred)

\* A call completed although its save failed, after a failed initializeAuth
\* step or none.
C8_Witness ==
  \E c \in Callers : pc[c] = "done" /\ sout[c] = "failed" /\ result[c] = NoToken

\* C9: at most one listener is bound (one session active) and it is the one
\* oauthServer names; while a listener is bound no startAuthorizationFlow
\* call creates a listener, and such a call changes nothing of the flow.
C9_OneSession ==
  [][/\ Cardinality({s \in Servers : Bound(s)'}) <= 1
     /\ \A s \in Servers : Bound(s)' => oauthServer' = s
     /\ (\E s \in Servers : Bound(s)) =>
          /\ \A s \in Servers : srv[s] = "unused" => srv'[s] = "unused"
          /\ lastStart' # lastStart =>
               (lastStart' = "noop" /\ UNCHANGED <<oauthServer, srv, clearCb>>)]_vars

\* startAuthorizationFlow was called while a listener was listening.
C9_Witness ==
  /\ lastStart = "noop"
  /\ \E s \in Servers : srv[s] = "listening" /\ oauthServer = s

\* C10: a callback request without a code is answered 400, starts no
\* exchange, leaves accessToken, tokenData and the store unchanged, and the
\* listener that received it no longer listens.
C10_MissingCode ==
  [][\A r \in Reqs :
       (hpc[r] = "idle" /\ hpc'[r] = "done")
       => (/\ hResp'[r] = 400
           /\ hGot'[r] = NoCred
           /\ UNCHANGED <<accessToken, tokenData, store>>
           /\ srv'[hSrv'[r]] = "draining"
           /\ oauthServer' = NoServer)]_vars

\* A callback without a code was answered while the cache held a credential.
C10_Witness ==
  \E r \in Reqs :
    /\ hpc[r] = "done" /\ hResp[r] = 400
    /\ srv[hSrv[r]] \in {"draining", "closed"}
    /\ tokenData # NoCred

\* The credential request r's exchange returned has not expired.
ExchangedValid(r) == hGot[r] # NoCred /\ now <= ToInstant(hGot[r].exp)

\* The part of C11 that does not depend on the save: before any exchange the
\* cache is empty and every call returns null; the first
\* startAuthorizationFlow call binds; from the exchange until the new
\* credential expires the cache holds it and every call returns its token.
C11_CacheScenario ==
  /\ (ipc = "done" /\ NoExchangeYet) =>
       /\ accessToken = NoToken /\ tokenData = NoCred
       /\ \A c \in Callers : pc[c] = "done" => (result[c] = NoToken /\ nrefresh[c] = 0)
  /\ lastStart = "noop" => \E s \in Servers : srv[s] # "unused"
  /\ \A r \in Reqs :
       ExchangedValid(r) =>
         /\ accessToken = ExchangeTok(r) /\ tokenData = hGot[r]
         /\ \A c \in Callers :
              seen[c] = hGot[r] => (pc[c] = "done" /\ result[c] = ExchangeTok(r))

Quiescent ==
  /\ ipc \in {"start", "done"}
  /\ \A c \in Callers : pc[c] \notin {"refresh", "save"}
  /\ \A r \in Reqs : hpc[r] \notin {"exchange", "save"}

NoSaveFailed ==
  /\ ifail # "save"
  /\ \A c \in Callers : sout[c] # "failed"
  /\ \A r \in Reqs : hSave[r] # "failed"

\* At most one refresh request was issued in the whole run, so no two
\* refreshes overlapped.
AtMostOneRefresh ==
  irefresh + Cardinality({c \in Callers : nrefresh[c] > 0}) <= 1

\* C12: write-through consistency.  Provided no save failed, in every
\* quiescent state where the cache holds a credential the store holds the
\* same credential, also after a code exchange and a refresh overlapped.
\* Stated for the runs with at most one refresh, where the only overlap left
\* is the one the claim names: a code exchange with a refresh.
C12_WriteThrough ==
  (Quiescent /\ NoSaveFailed /\ AtMostOneRefresh /\ tokenData # NoCred)
    => SameCred(tokenData, store)

\* C13: the outcome of initializeAuth.  Store empty or load failed: cache
\* empty.  Stored credential not expired: the cache equals it and no refresh
\* is issued.  Stored credential expired: exactly one refresh; accepted, the
\* cache and the store hold the refreshed credential; rejected, the cache is
\* empty.
C13_InitializeAuth ==
  [][/\ irefresh' <= 1
     /\ (ipc = "load" /\ ipc' # "load") =>
          IF ifail' = "load" \/ store = NoCred
            THEN ipc' = "done" /\ irefresh' = 0
                 /\ accessToken' = NoToken /\ tokenData' = NoCred
          ELSE IF ToInstant(store.exp) < now
            THEN ipc' = "refresh" /\ irefresh' = 1
          ELSE ipc' = "done" /\ irefresh' = 0
               /\ tokenData' = store /\ accessToken' = store.at
     /\ (ipc = "refresh" /\ ipc' # "refresh") =>
          IF ifail' = "refresh"
            THEN ipc' = "done" /\ accessToken' = NoToken /\ tokenData' = NoCred
            ELSE ipc' = "save" /\ irefresh' = 1
     /\ (ipc = "save" /\ ipc' = "done") =>
          /\ accessToken' = InitRefreshTok
          /\ tokenData'.at = InitRefreshTok
          /\ SameCred(tokenData', store')
          /\ irefresh' = 1]_vars

\* C14: when the startup sequence (initializeAuth, getAccessToken, the null
\* check) finishes, either an access token is cached or
\* startAuthorizationFlow has been invoked; with no persisted credential, or
\* with one whose refresh was rejected, the flow is started.
C14_StartupStartsFlow ==
  [][(pc[MainCaller] # "finished" /\ pc'[MainCaller] = "finished") =>
       /\ accessToken' # NoToken \/ lastStart' # "none"
       /\ (seen'[MainCaller] = NoCred \/ rout'[MainCaller] = "rejected")
            => lastStart' = "bound"]_vars

\* Startup finished by starting the flow, and startup finished with a token.
C14_Witness ==
  /\ pc[MainCaller] = "finished"
  /\ result[MainCaller] = NoToken
  /\ lastStart = "bound"

\* Two credentials are equal in all fields, expires_at compared as the
\* instant it gives (`new Date(expires_at)`).
EqualFields(a, b) ==
  /\ a.at = b.at
  /\ a.rt = b.rt
  /\ (a.exp.k = "none") = (b.exp.k = "none")
  /\ ToInstant(a.exp) = ToInstant(b.exp)

C16_TeardownHappens ==
  /\ [](\A r \in Reqs : hpc[r] = "done" => srv[hSrv[r]] \in {"draining", "closed"})
  /\ [](oauthServer # NoServer =>
          \/ Bound(oauthServer)
          \/ srv[oauthServer] = "draining" /\ clearCb[oauthServer])
  /\ \A s \in Servers : (srv[s] = "draining") ~> (srv[s] = "closed" /\ oauthServer # s)
  /\ [][(oauthServer = NoServer /\ lastStart' # lastStart) => lastStart' = "bound"]_vars

\* After a handled callback (here one answered 500) the guard was cleared
\* and a later call bound a new listener.
C16_Witness ==
  \E r \in Reqs :
    /\ hpc[r] = "done" /\ hResp[r] = 500
    /\ srv[hSrv[r]] = "closed"
    /\ oauthServer # NoServer /\ oauthServer # hSrv[r] /\ Bound(oauthServer)

\* C17: whenever the exchange succeeds the credential is written to the
\* cache and to the store and the browser gets the success page: no handled
\* callback has an exchanged credential in the cache with an error page sent
\* or with the store lacking it.
C17_SuccessIsWhole ==
  \A r \in Reqs :
    (hpc[r] = "done" /\ hGot[r] # NoCred /\ tokenData = hGot[r]) =>
      /\ hResp[r] = 200
      /\ store = Stringify(hGot[r])

\* C18: at most one callback request of a bound listener leads to a code
\* exchange: no two requests accepted by the same listener have both
\* started an exchange.
C18_OneExchangePerListener ==
  \A r1, r2 \in Reqs :
    (/\ r1 # r2
     /\ hSrv[r1] # NoServer
     /\ hSrv[r1] = hSrv[r2]
     /\ hpc[r1] \in {"exchange", "save"} \/ hGot[r1] # NoCred \/ hResp[r1] \in {200, 500})
      => ~(hpc[r2] \in {"exchange", "save"} \/ hGot[r2] # NoCred \/ hResp[r2] \in {200, 500})

\* C19: a refresh failure never discards a newer credential: when the
\* refresh of a getAccessToken call is rejected while the cache holds a
\* credential that a code exchange installed after the call began, the cache
\* keeps that credential.
C19_RefreshFailureKeepsNewer ==
  [][\A c \in Callers :
       (/\ pc[c] = "refresh" /\ rout'[c] = "rejected"
        /\ \E r \in Reqs : hGot[r] # NoCred /\ tokenData = hGot[r] /\ seen[c] # hGot[r])
         => UNCHANGED <<accessToken, tokenData>>]_vars

\* C20: a callback handler tears down only the listener of its own session:
\* the step that ends a handler with a code never starts closing a listener
\* other than the one that accepted its request.
C20_OwnListenerOnly ==
  [][\A r \in Reqs :
       (hpc[r] \in {"exchange", "save"} /\ hpc'[r] = "done") =>
         \A s \in Servers :
           (Bound(s) /\ ~Bound(s)') => s = hSrv[r]]_vars
====
